---- MODULE Spec2Model ----
(***************************************************************************)
(* Model of sync_garmin_data.py: the Garmin Connect mirror script.         *)
(*                                                                         *)
(* The script is sequential.  A run is main(): init_api, mode selection,   *)
(* the six sync phases and save_sync_state.  The remote client, the user   *)
(* at the terminal and the calendar are the environment; the files under   *)
(* BASE_DIR persist from one run to the next.                              *)
(*                                                                         *)
(* Python values are encoded as tuples so that any two of them compare:    *)
(*   None                 <<>>                                             *)
(*   an optional date     <<>> or <<ordinal>>                              *)
(*   a date string        <<y, m, d>>  (the text "YYYY-MM-DD")             *)
(*   a JSON value         a non-empty tuple                                *)
(***************************************************************************)
EXTENDS Integers, Sequences, FiniteSets, TLC

\* ------------------------------------------------------------------------
\* Program constants
\* ------------------------------------------------------------------------
HISTORY_DAYS == 365
API_DELAY == 1
MAX_RETRIES == 3
RETRY_BACKOFF == 5
\* limit = 100 in sync_activities_full
PageLimit == 100
\* the week count passed to get_weekly_steps / get_weekly_stress
WeeklyWeeks == 52

None == <<>>

\* ------------------------------------------------------------------------
\* Calendar: datetime.date as a proleptic Gregorian ordinal, date.isoformat
\* and datetime.strptime(.., "%Y-%m-%d").date()
\* ------------------------------------------------------------------------
IsLeap(y) == (y % 4 = 0) /\ ((y % 100 # 0) \/ (y % 400 = 0))

DaysInMonth(y, m) ==
    IF m = 2 THEN (IF IsLeap(y) THEN 29 ELSE 28)
    ELSE IF m \in {4, 6, 9, 11} THEN 30 ELSE 31

DaysBeforeYear(y) ==
    LET p == y - 1 IN p * 365 + (p \div 4) - (p \div 100) + (p \div 400)

RECURSIVE DaysBeforeMonth(_, _)
DaysBeforeMonth(y, m) ==
    IF m <= 1 THEN 0 ELSE DaysBeforeMonth(y, m - 1) + DaysInMonth(y, m - 1)

\* date(y, m, d).toordinal()
Ymd2Ord(y, m, d) == DaysBeforeYear(y) + DaysBeforeMonth(y, m) + d

\* the year of an ordinal, by the 400/100/4/1-year cycles
YearOfOrd(n) ==
    LET n0   == n - 1
        n400 == n0 \div 146097
        r400 == n0 % 146097
        n100 == r400 \div 36524
        r100 == r400 % 36524
        n4   == r100 \div 1461
        r4   == r100 % 1461
        n1   == r4 \div 365
        y    == n400 * 400 + n100 * 100 + n4 * 4 + n1 + 1
    IN  IF n1 = 4 \/ n100 = 4 THEN y - 1 ELSE y

RECURSIVE MonthOfDay(_, _, _)
\* the month holding the k-th day (k >= 1) of year y, searching from month m
MonthOfDay(y, m, k) ==
    IF k <= DaysInMonth(y, m) \/ m = 12 THEN <<m, k>>
    ELSE MonthOfDay(y, m + 1, k - DaysInMonth(y, m))

\* date.isoformat(): the text "YYYY-MM-DD" of an ordinal, as <<y, m, d>>
IsoFormat(n) ==
    LET y  == YearOfOrd(n)
        md == MonthOfDay(y, 1, n - DaysBeforeYear(y))
    IN  <<y, md[1], md[2]>>

\* datetime.strptime(s, "%Y-%m-%d").date(): the ordinal of the text
Strptime(s) == Ymd2Ord(s[1], s[2], s[3])

\* ------------------------------------------------------------------------
\* api_call: the retrying caller
\* ------------------------------------------------------------------------
\* What one invocation of the wrapped operation can do.
RateLimitErrors == {"GarminConnectTooManyRequestsError", "GarthHTTPError429"}
OtherErrors == {"GarthHTTPError", "GarminConnectAuthenticationError",
                "GarminConnectConnectionError", "Exception"}
ApiErrors == RateLimitErrors \cup OtherErrors
ApiOutcomes == {"ok", "KeyboardInterrupt"} \cup ApiErrors

\* A wrapped operation: what it does on its 1st, 2nd, ... invocation.
ApiOps == [1..MAX_RETRIES -> ApiOutcomes]
AlwaysOk == [i \in 1..MAX_RETRIES |-> "ok"]

\* ... what the except clauses of api_call do with an outcome
\*   "retry"   sleep RETRY_BACKOFF * (attempt + 1), continue
\*   "silent"  return None without a message (GarthHTTPError that is no 429)
\*   "warn"    print the warning, return None
\*   "raise"   not an Exception: propagates to the caller
\* the clauses without `except Exception`
OnErrorNoCatchAll(e) ==
    IF e \in {"GarminConnectTooManyRequestsError", "GarthHTTPError429"}
    THEN "retry"
    ELSE IF e = "GarthHTTPError" THEN "silent"
    ELSE "raise"

\* the clauses of api_call
OnError(e) ==
    IF e \in {"GarminConnectTooManyRequestsError", "GarthHTTPError429"}
    THEN "retry"
    ELSE IF e = "GarthHTTPError" THEN "silent"
    ELSE IF e = "KeyboardInterrupt" THEN "raise"
    ELSE "warn"

\* a wait that does not grow
BackoffConstant(attempt) == RETRY_BACKOFF

\* wait = RETRY_BACKOFF * (attempt + 1)
Backoff(attempt) == RETRY_BACKOFF * (attempt + 1)

\* a loop of one iteration less
AttemptsLeftOneLess(attempt) == attempt < MAX_RETRIES - 1

\* for attempt in range(MAX_RETRIES)
AttemptsLeft(attempt) == attempt < MAX_RETRIES

RECURSIVE ApiLoop(_, _, _, _, _)
\* The for loop of api_call from iteration `attempt` on.  `call` names the
\* operation and its arguments, `val` is what the operation returns when it
\* succeeds, `op` what it does at each invocation, `ev` the events so far.
\* The result is [kind, value, ok, ev]: kind "return" with the returned
\* value, or kind "raise" with the exception that leaves api_call; ok says
\* that the operation itself returned.
ApiLoop(call, val, op, attempt, ev) ==
    IF ~AttemptsLeft(attempt)
    THEN [kind |-> "return", value |-> None, ok |-> FALSE,
          ev |-> Append(ev, <<"print", "Giving up after max retries.">>)]
    ELSE
      LET o   == op[attempt + 1]
          ev1 == Append(ev, <<"call", call>>)
      IN  IF o = "ok"
          THEN [kind |-> "return", value |-> val, ok |-> TRUE, ev |-> ev1]
          ELSE
            CASE OnError(o) = "retry" ->
                   ApiLoop(call, val, op, attempt + 1,
                           ev1 \o << <<"print", "Rate limited, waiting">>,
                                     <<"sleep", Backoff(attempt)>> >>)
              [] OnError(o) = "silent" ->
                   [kind |-> "return", value |-> None, ok |-> FALSE, ev |-> ev1]
              [] OnError(o) = "warn" ->
                   [kind |-> "return", value |-> None, ok |-> FALSE,
                    ev |-> Append(ev1, <<"print", "Warning", o>>)]
              [] OTHER ->
                   [kind |-> "raise", value |-> <<o>>, ok |-> FALSE, ev |-> ev1]

ApiCall(call, val, op) == ApiLoop(call, val, op, 0, <<>>)

\* the events of a trace that are of one type
EventsOf(ev, type) == SelectSeq(ev, LAMBDA e : e[1] = type)


\* ------------------------------------------------------------------------
\* Bounds of the model and the environment's inputs
\* ------------------------------------------------------------------------
\* runs of the script, one after the other
MaxRuns == 2
\* remote calls of the sync phases that do not simply succeed, over all runs
MaxFaults == 1
\* iterations of the credential loop of init_api in one run
MaxLoginAttempts == 2
\* daily fetches can go wrong for the dates at most this far before today
FaultWindow == 1
\* activities recorded at the remote service after the first run
MaxNewActivities == 1

\* date.today() of the first run, and the days a run can happen on
BaseToday == Ymd2Ord(2024, 12, 31)
Todays == {BaseToday, BaseToday + 1}

\* every date a run can touch, and its directory name under daily/
Days == (BaseToday - HISTORY_DAYS)..(BaseToday + 1)
DateStrs == {IsoFormat(n) : n \in Days}

\* sizes of the remote activity list
ActivityCounts == {0, 37, 200, 237}
\* list positions whose record has no activityId, and positions that repeat
\* the record before them (the list shifted between two page requests)
NoIdPositions == {3}
DupPositions == {5, PageLimit + 1}

RECURSIVE ActivityAt(_, _)
\* the summary record at position p (1 = newest) of a list of n entries
ActivityAt(n, p) ==
    IF p \in DupPositions /\ p > 1 THEN ActivityAt(n, p - 1)
    ELSE <<"activity", IF p \in NoIdPositions THEN 0 ELSE n - p + 1,
           IsoFormat(BaseToday - ((p - 1) \div 2))>>

RemoteActivities(n) == [p \in 1..n |-> ActivityAt(n, p)]

\* The remote list is one of these from the start; which one shows at the
\* first list request.
Unlisted == <<"unlisted">>
RemoteLists(known) ==
    IF known = Unlisted THEN {RemoteActivities(n) : n \in ActivityCounts}
    ELSE {known}

\* the behaviours other than success that the sync phases are run against:
\* success after a retry, retries exhausted, an error that is not retried
\* (silent, reported), an interrupt, an interrupt after a retry
Behaviour(a, b, c) == [i \in 1..MAX_RETRIES |-> IF i = 1 THEN a ELSE IF i = 2 THEN b ELSE c]
FaultyOps ==
    {Behaviour("GarthHTTPError429", "ok", "ok"),
     Behaviour("GarminConnectTooManyRequestsError",
               "GarminConnectTooManyRequestsError",
               "GarminConnectTooManyRequestsError"),
     Behaviour("GarthHTTPError", "ok", "ok"),
     Behaviour("Exception", "ok", "ok"),
     Behaviour("KeyboardInterrupt", "ok", "ok"),
     Behaviour("GarminConnectTooManyRequestsError", "KeyboardInterrupt", "ok")}

\* ------------------------------------------------------------------------
\* The file tree under BASE_DIR
\* ------------------------------------------------------------------------
\* daily_calls of sync_daily_data, then body_battery
DailyCalls ==
    << <<"summary.json", "get_user_summary">>,
       <<"heart_rate.json", "get_heart_rates">>,
       <<"sleep.json", "get_sleep_data">>,
       <<"stress.json", "get_all_day_stress">>,
       <<"respiration.json", "get_respiration_data">>,
       <<"spo2.json", "get_spo2_data">>,
       <<"hrv.json", "get_hrv_data">>,
       <<"training_readiness.json", "get_training_readiness">>,
       <<"hydration.json", "get_hydration_data">>,
       <<"intensity_minutes.json", "get_intensity_minutes_data">>,
       <<"floors.json", "get_floors">>,
       <<"steps_detail.json", "get_steps_data">> >>
BodyBattery == <<"body_battery.json", "get_body_battery">>
NDaily == Len(DailyCalls) + 1
DailyEntry(i) == IF i <= Len(DailyCalls) THEN DailyCalls[i] ELSE BodyBattery
DailyFiles == {DailyEntry(i)[1] : i \in 1..NDaily}

\* the documents refreshed on every run
DocFiles == {"body_composition/body_comp.json", "body_composition/weigh_ins.json",
             "weekly/steps.json", "weekly/stress.json",
             "profile/user_profile.json", "profile/devices.json",
             "personal_records.json"}

\* the activity ids the remote lists can hold
ActivityIds == 1..(2 * PageLimit + 37 + MaxNewActivities)

\* a file system on which no path exists
ExistsNever(content) == FALSE

\* Path.exists(), on the content stored at the path (None: no such file)
Exists(content) == content # None

\* a save that keeps a file that is already there
SaveJsonKeep(dir, name, data) ==
    IF Exists(dir[name]) THEN dir ELSE [dir EXCEPT ![name] = data]

\* save_json(path, data), on the directory holding the path
SaveJson(dir, name, data) == [dir EXCEPT ![name] = data]

VARIABLES
    pc,          \* where the process is: "idle", a step of main, "exited"
    run,         \* number of the current run
    exitCode,    \* exit status of the last run that ended, -1 while none
    exitHow,     \* how that run ended
    raised,      \* the exception that left init_api towards main, or None
    interrupted, \* a KeyboardInterrupt was raised in this run
    tokens,      \* the token store holds a bundle
    credTries,   \* failed iterations of the credential loop so far
    clock,       \* the calendar: what date.today() returns
    today, last_sync, start_date,   \* locals of main
    daily,       \* daily/<date>/<file>: content or None
    activities,  \* activities/<id>.json: content or None
    docs,        \* the refreshed documents: content or None
    sync_state,  \* sync_state.json: None or <<last_sync_date>>
    remote,      \* the activity list of the remote service, newest first
    offset, total,   \* start and total of sync_activities_full
    faults,      \* remote calls of the sync phases that went wrong so far
    ev,          \* the calls, writes, sleeps and messages of the last step
    chosen,      \* what the environment made of the remote calls of that step
    stats,       \* counters of the current run
    hist,        \* one summary per finished run
    apiOp, apiOut, apiDir   \* the retrying caller on its own (SpecApi)

vars == <<pc, run, exitCode, exitHow, raised, interrupted, tokens, credTries,
          clock, today, last_sync, start_date, daily, activities, docs,
          sync_state, remote, offset, total, faults, ev, chosen, stats,
          hist, apiOp, apiOut, apiDir>>

fsVars == <<daily, activities, docs, sync_state>>
apiVars == <<apiOp, apiOut, apiDir>>
mainLocals == <<today, last_sync, start_date>>
actLocals == <<offset, total>>

\* the number of activities the remote lists, -1 before the first listing
RemoteSize == IF remote = Unlisted THEN -1 ELSE Len(remote)

NoStats == [dailyWrites |-> 0, actWrites |-> 0, listRequests |-> 0,
            listFault |-> FALSE, absents |-> 0, mode |-> "none"]

EmptyDay == [f \in DailyFiles |-> None]

InitMain ==
    /\ pc = "idle"
    /\ run = 0
    /\ exitCode = -1
    /\ exitHow = "none"
    /\ raised = None
    /\ interrupted = FALSE
    /\ tokens = FALSE
    /\ credTries = 0
    /\ clock = BaseToday
    /\ today = BaseToday
    /\ last_sync = None
    /\ start_date = BaseToday
    /\ daily = [ds \in DateStrs |-> EmptyDay]
    /\ activities = [a \in ActivityIds |-> None]
    /\ docs = [d \in DocFiles |-> None]
    /\ sync_state = None
    /\ offset = 0
    /\ total = 0
    /\ faults = 0
    /\ ev = <<>>
    /\ chosen = <<>>
    /\ stats = NoStats
    /\ hist = <<>>

Init ==
    /\ InitMain
    /\ remote = Unlisted
    /\ apiOp = AlwaysOk
    /\ apiOut = None
    /\ apiDir = EmptyDay


\* ------------------------------------------------------------------------
\* Process exit
\* ------------------------------------------------------------------------
\* The run ends: `how` is "complete" (main returned), "auth_failed"
\* (main's sys.exit(1)), "sys_exit" (init_api's sys.exit(1)), "interrupted"
\* (__main__ caught KeyboardInterrupt) or "uncaught" (traceback).
ExitCodeOf(how) == IF how \in {"complete", "interrupted"} THEN 0 ELSE 1

Finish(how, st) ==
    /\ pc' = "exited"
    /\ exitHow' = how
    /\ exitCode' = ExitCodeOf(how)
    /\ hist' = IF pc \in {"token", "cred"} THEN hist
               ELSE Append(hist, [how |-> how, today |-> today, stats |-> st,
                                  listed |-> RemoteSize])

\* a KeyboardInterrupt reaches the handler of __main__
Interrupt(st) ==
    /\ interrupted' = TRUE
    /\ Finish("interrupted", st)

StartRun ==
    /\ pc \in {"idle", "exited"}
    /\ run < MaxRuns
    /\ pc' = "token"
    /\ exitCode' = -1
    /\ exitHow' = "none"
    /\ raised' = None
    /\ interrupted' = FALSE
    /\ credTries' = 0
    /\ stats' = NoStats
    /\ ev' = <<>>
    /\ chosen' = <<>>
    /\ UNCHANGED <<run, tokens, clock, mainLocals, fsVars, remote, actLocals,
                   faults, hist, apiVars>>

\* The calendar moves on.  The script reads it twice, in main and in
\* sync_weekly: a midnight during a run shows only if it falls between
\* these two reads, else it is as one between two runs.
Midnight ==
    /\ pc \in {"exited", "weekly"}
    /\ run >= 1
    /\ clock + 1 \in Todays
    /\ clock' = clock + 1
    /\ ev' = <<>>
    /\ chosen' = <<>>
    /\ UNCHANGED <<pc, run, exitCode, exitHow, raised, interrupted, tokens,
                   credTries, mainLocals, fsVars, remote, actLocals, faults,
                   stats, hist, apiVars>>

\* the identifier the remote service gives to the next new activity
NextActivityId ==
    IF Len(remote) > 0 /\ remote[1][2] > 2 * PageLimit + 37
    THEN remote[1][2] + 1 ELSE 2 * PageLimit + 37 + 1

\* The user records an activity today, between two runs.
NewActivity ==
    /\ pc = "exited"
    /\ remote # Unlisted
    /\ \E id \in {NextActivityId} :
         /\ id \in ActivityIds
         /\ remote' = <<<<"activity", id, IsoFormat(clock)>>>> \o remote
    /\ ev' = <<>>
    /\ chosen' = <<>>
    /\ UNCHANGED <<pc, run, exitCode, exitHow, raised, interrupted, tokens,
                   credTries, clock, mainLocals, fsVars, actLocals, faults,
                   stats, hist, apiVars>>

\* ------------------------------------------------------------------------
\* init_api
\* ------------------------------------------------------------------------
GarthHTTPErrors == {"GarthHTTPError429", "GarthHTTPError401",
                    "GarthHTTPError403", "GarthHTTPError"}
\* what garmin.login(tokenstore) can do
TokenLoginOutcomes ==
    {"ok", "FileNotFoundError", "GarminConnectAuthenticationError",
     "GarminConnectConnectionError", "GarminConnectTooManyRequestsError",
     "Exception", "KeyboardInterrupt"} \cup GarthHTTPErrors
\* what the prompts and garmin.login() of the credential flow can do
CredLoginOutcomes ==
    {"ok", "needs_mfa", "FileNotFoundError", "GarminConnectAuthenticationError",
     "GarminConnectConnectionError", "GarminConnectTooManyRequestsError",
     "requests.HTTPError", "Exception", "KeyboardInterrupt"} \cup GarthHTTPErrors
\* what the MFA prompt and garmin.resume_login can do
MfaOutcomes ==
    {"ok", "GarthException", "GarminConnectAuthenticationError",
     "GarminConnectConnectionError", "GarminConnectTooManyRequestsError",
     "Exception", "KeyboardInterrupt"} \cup GarthHTTPErrors

\* the except clause of the stored-token step
TokenCaught(e) ==
    e \in {"FileNotFoundError", "GarminConnectAuthenticationError",
           "GarminConnectConnectionError"} \cup GarthHTTPErrors

\* the except clauses of the credential loop: "continue", "return_none",
\* or "propagate" when no clause matches
CredHandler(e) ==
    IF e = "GarminConnectAuthenticationError" THEN "continue"
    ELSE IF e \in {"FileNotFoundError", "GarminConnectConnectionError",
                   "requests.HTTPError"} \cup GarthHTTPErrors
    THEN "return_none"
    ELSE IF e = "KeyboardInterrupt" THEN "return_none"
    ELSE "propagate"

\* the clauses around resume_login without `except GarthException`
MfaHandlerHttpOnly(e) ==
    IF e = "GarthHTTPError429" THEN "sys_exit"
    ELSE IF e \in {"GarthHTTPError401", "GarthHTTPError403"} THEN "continue"
    ELSE IF e = "GarthHTTPError" THEN "sys_exit"
    ELSE CredHandler(e)

\* the except clauses around resume_login: "sys_exit", "continue", or the
\* clauses of the enclosing try
MfaHandler(e) ==
    IF e = "GarthHTTPError429" THEN "sys_exit"
    ELSE IF e \in {"GarthHTTPError401", "GarthHTTPError403"} THEN "continue"
    ELSE IF e = "GarthHTTPError" THEN "sys_exit"
    ELSE IF e = "GarthException" THEN "continue"
    ELSE CredHandler(e)

\* init_api returned the client: main goes on
Authenticated ==
    /\ pc' = "mode"
    /\ UNCHANGED <<exitCode, exitHow, hist, interrupted, raised>>

\* init_api returned None: main prints and exits with 1
ReturnNone(e) ==
    /\ interrupted' = (interrupted \/ e = "KeyboardInterrupt")
    /\ raised' = raised
    /\ Finish("auth_failed", stats)

\* an exception leaves init_api and main
Propagate(e) ==
    /\ raised' = <<e>>
    /\ IF e = "KeyboardInterrupt" THEN Interrupt(stats)
       ELSE /\ interrupted' = interrupted
            /\ Finish("uncaught", stats)

SysExit ==
    /\ UNCHANGED <<raised, interrupted>>
    /\ Finish("sys_exit", stats)

\* Step 1: garmin.login(tokenstore)
TokenLogin ==
    /\ pc = "token"
    /\ \E o \in TokenLoginOutcomes :
         /\ tokens \/ o \in {"FileNotFoundError", "KeyboardInterrupt"}
         /\ ev' = <<<<"login", "tokenstore">>>>
         /\ chosen' = <<>>
         /\ IF o = "ok" THEN Authenticated
            ELSE IF TokenCaught(o)
            THEN /\ pc' = "cred"
                 /\ UNCHANGED <<exitCode, exitHow, hist, interrupted, raised>>
            ELSE Propagate(o)
    /\ UNCHANGED <<run, tokens, credTries, clock, mainLocals, fsVars, remote,
                   actLocals, faults, stats, apiVars>>

\* Step 2: one iteration of the while True loop
CredLogin ==
    /\ pc = "cred"
    /\ \E o \in CredLoginOutcomes :
       \E m \in IF o = "needs_mfa" THEN MfaOutcomes ELSE {"ok"} :
         LET e == IF o = "needs_mfa" THEN m ELSE o
             h == IF o = "needs_mfa" THEN MfaHandler(m) ELSE CredHandler(o)
         IN
         /\ chosen' = IF o = "needs_mfa" THEN <<m>> ELSE <<>>
         /\ ev' = IF o = "needs_mfa"
                  THEN <<<<"login", "credentials">>, <<"resume_login">>>>
                  ELSE <<<<"login", "credentials">>>>
         /\ IF e = "ok"
            THEN /\ tokens' = TRUE
                 /\ credTries' = 0
                 /\ Authenticated
            ELSE /\ tokens' = tokens
                 /\ credTries' = IF h = "continue" THEN credTries + 1 ELSE 0
                 /\ CASE h = "continue" ->
                           /\ credTries + 1 < MaxLoginAttempts
                           /\ pc' = "cred"
                           /\ UNCHANGED <<exitCode, exitHow, hist, interrupted,
                                          raised>>
                      [] h = "return_none" -> ReturnNone(e)
                      [] h = "sys_exit" -> SysExit
                      [] OTHER -> Propagate(e)
    /\ UNCHANGED <<run, clock, mainLocals, fsVars, remote, actLocals, faults,
                   stats, apiVars>>

\* a load that starts one day before the stored date
LoadSyncStateDayBefore(state) ==
    IF Exists(state) /\ state[1] # None THEN <<Strptime(state[1]) - 1>> ELSE None

\* ------------------------------------------------------------------------
\* main: mode selection
\* ------------------------------------------------------------------------
\* load_sync_state(): the optional date of the state file
LoadSyncState(state) ==
    IF Exists(state) /\ state[1] # None THEN <<Strptime(state[1])>> ELSE None

\* save_sync_state(sync_date): the new content of the state file
SaveSyncState(sync_date) == <<IsoFormat(sync_date)>>

\* a history one day shorter
StartDateShort(t, last) ==
    IF last # None THEN last[1] ELSE t - (HISTORY_DAYS - 1)

\* start_date of main
StartDate(t, last) ==
    IF last # None THEN last[1] ELSE t - HISTORY_DAYS

ModeOf(last) == IF last # None THEN "incremental" ELSE "initial"

Mode ==
    /\ pc = "mode"
    /\ run' = run + 1
    /\ today' = clock
    /\ last_sync' = LoadSyncState(sync_state)
    /\ start_date' = StartDate(clock, last_sync')
    /\ ev' = <<<<"print", ModeOf(last_sync'), IsoFormat(start_date'),
                 IsoFormat(clock)>>>>
    /\ stats' = [stats EXCEPT !.mode = ModeOf(last_sync')]
    /\ chosen' = <<>>
    /\ pc' = "daily"
    /\ UNCHANGED <<exitCode, exitHow, raised, interrupted, tokens, credTries,
                   clock, fsVars, remote, actLocals, faults, hist, apiVars>>


\* ------------------------------------------------------------------------
\* sync_daily_data
\* ------------------------------------------------------------------------
\* the remote call of the i-th daily metric for the date string ds
DailyCallOf(i, ds) ==
    IF i <= Len(DailyCalls) THEN <<DailyEntry(i)[2], ds>>
    ELSE <<DailyEntry(i)[2], ds, ds>>

\* a check that knows summary.json only
DailyCachedOnlySummary(dir, name) == name = "summary.json" /\ Exists(dir[name])

\* if filepath.exists(): continue  /  if not bb_path.exists()
DailyCached(dir, name) == Exists(dir[name])

\* a caller that stores whatever api_call returned
StoreAlways(data) == TRUE

\* if data is not None
ShouldStore(data) == data # None

\* The body of the loop over the metrics for metric i (and the body_battery
\* block for i = NDaily): skip if cached, else fetch, store and sleep.
\* st = [dir, ev, raised, writes, absents] is the day's directory, the
\* events so far, the exception that ended the loop, and two counters.
DailyFetch(st, ds, i, op, val) ==
    LET name == DailyEntry(i)[1] IN
    IF DailyCached(st.dir, name) THEN st
    ELSE
      LET r == ApiCall(DailyCallOf(i, ds), val, op) IN
      IF r.kind = "raise"
      THEN [st EXCEPT !.ev = @ \o r.ev, !.raised = r.value]
      ELSE IF ShouldStore(r.value)
      THEN [st EXCEPT !.dir = SaveJson(@, name, r.value),
                      !.ev = @ \o r.ev \o << <<"write", "daily", ds, name>>,
                                             <<"sleep", API_DELAY>> >>,
                      !.writes = @ + 1]
      ELSE [st EXCEPT !.ev = @ \o r.ev \o << <<"sleep", API_DELAY>> >>,
                      !.absents = @ + 1]

RECURSIVE DailyLoop(_, _, _, _, _)
\* one iteration of the loop over the dates, from metric i on
DailyLoop(st, ds, i, env, val) ==
    IF i > NDaily \/ st.raised # None THEN st
    ELSE DailyLoop(DailyFetch(st, ds, i, env[i], val), ds, i + 1, env, val)

\* the value the remote returns in this run (opaque JSON)
RemoteValue == <<"v", run>>

\* the environment of a step of n remote calls: all succeed, or call j
\* behaves as op
Env(n, j, op) == [i \in 1..n |-> IF i = j THEN op ELSE AlwaysOk]

\* a fault <<d, j, op>>: the j-th fetch about date d behaves as op
NoFault == <<0, 0, AlwaysOk>>

NoDays == [dirs |-> <<>>, ev |-> <<>>, raised |-> None, writes |-> 0,
           absents |-> 0]

\* the iterations a, then the iterations b unless a was left by an exception
Then(a, b) ==
    IF a.raised # None THEN a
    ELSE [dirs |-> a.dirs \o b.dirs, ev |-> a.ev \o b.ev, raised |-> b.raised,
          writes |-> a.writes + b.writes, absents |-> a.absents + b.absents]

RECURSIVE DailyRange(_, _, _, _, _)
\* The loop over the dates for current = lo, .., hi, in this order (the
\* range is halved to keep the evaluation shallow): the directories of
\* the days gone through, the events, and what ended the loop.
DailyRange(files, lo, hi, fault, val) ==
    IF lo > hi THEN NoDays
    ELSE IF lo = hi
    THEN LET ds == IsoFormat(lo)
             r  == DailyLoop([dir |-> files[ds],
                              ev |-> <<<<"print", "Syncing daily data", ds>>>>,
                              raised |-> None, writes |-> 0, absents |-> 0],
                             ds, 1,
                             Env(NDaily, IF fault[1] = lo THEN fault[2] ELSE 0,
                                 fault[3]),
                             val)
         IN  [dirs |-> <<r.dir>>, ev |-> r.ev, raised |-> r.raised,
              writes |-> r.writes, absents |-> r.absents]
    ELSE LET mid == (lo + hi) \div 2
         IN  Then(DailyRange(files, lo, mid, fault, val),
                  DailyRange(files, mid + 1, hi, fault, val))

\* daily/ with the directories dirs of the days lo, lo + 1, ..
WithDays(files, lo, dirs) ==
    [ds \in DOMAIN files |->
        LET k == Strptime(ds) - lo + 1
        IN  IF 1 <= k /\ k <= Len(dirs) THEN dirs[k] ELSE files[ds]]

Max(a, b) == IF a > b THEN a ELSE b

\* the metrics whose fetch can go wrong: the first and the last of
\* daily_calls, and body_battery
FaultMetrics == {1, Len(DailyCalls), NDaily}

\* the faults of the daily phase: none, or one fetch that is made, about a
\* date of the fault window, while the budget lasts
DailyFaults(from) ==
    {NoFault} \cup
    IF faults < MaxFaults
    THEN {f \in (from..today) \X FaultMetrics \X FaultyOps :
            ~Exists(daily[IsoFormat(f[1])][DailyEntry(f[2])[1]])}
    ELSE {}

\* sync_daily_data(api, start_date, today), and the sleep of main after it
SyncDailyData ==
    /\ pc = "daily"
    /\ LET from == Max(start_date, today - FaultWindow) IN
       \E old \in {DailyRange(daily, start_date, from - 1, NoFault, RemoteValue)} :
       \E fault \in DailyFaults(from) :
       /\ chosen' = fault
       /\ \E res \in {Then(old, DailyRange(daily, from, today, fault, RemoteValue))} :
          \E st1 \in {[stats EXCEPT !.dailyWrites = @ + res.writes,
                                    !.absents = @ + res.absents]} :
         /\ daily' = WithDays(daily, start_date, res.dirs)
         /\ stats' = st1
         /\ faults' = IF fault = NoFault THEN faults ELSE faults + 1
         /\ IF res.raised # None
            THEN /\ Interrupt(st1)
                 /\ ev' = res.ev
            ELSE /\ pc' = "activities"
                 /\ ev' = Append(res.ev, <<"sleep", API_DELAY>>)
                 /\ UNCHANGED <<exitCode, exitHow, hist, interrupted>>
    /\ offset' = 0
    /\ total' = 0
    /\ UNCHANGED <<run, raised, tokens, credTries, clock, mainLocals, activities,
                   docs, sync_state, remote, apiVars>>

\* ------------------------------------------------------------------------
\* sync_activities_full and sync_activities_incremental
\* ------------------------------------------------------------------------
Min(a, b) == IF a < b THEN a ELSE b

\* api.get_activities(start, limit) on the remote list
GetActivities(list, start, limit) ==
    SubSeq(list, start + 1, Min(start + limit, Len(list)))

\* api.get_activities_by_date(startdate, enddate) on the remote list
GetActivitiesByDate(list, s, e) ==
    SelectSeq(list, LAMBDA a : /\ Strptime(s) <= Strptime(a[3])
                               /\ Strptime(a[3]) <= Strptime(e))

\* main: if last_sync: incremental, else full
Incremental == last_sync # None

\* a loop that ends at an empty batch only
LastPageNever(n) == FALSE

\* if len(batch) < limit: break
LastPage(n) == n < PageLimit

\* no fallback to the summary record
FallbackNothing(detail, activity) == detail

\* what is cached for an activity: the detail, else the summary record
ActivityContent(detail, activity) ==
    IF detail # None THEN detail ELSE activity

\* a loop that takes no activity file for present
ActivityCachedNever(files, aid) == FALSE

\* filepath.exists() for activities/<aid>.json, the same in both paths
ActivityCached(files, aid) == Exists(files[aid])

\* The body of the loop over a batch for one activity.  st = [files, ev,
\* raised, total, writes, absents]; counted says that cached activities
\* are counted too (the full path).
ActivityStep(st, activity, op, counted, stamp) ==
    LET aid == activity[2] IN
    IF aid = 0 THEN st
    ELSE IF ActivityCached(st.files, aid)
    THEN [st EXCEPT !.total = IF counted THEN @ + 1 ELSE @]
    ELSE
      LET r == ApiCall(<<"get_activity", aid>>, <<"detail", aid, stamp>>, op) IN
      IF r.kind = "raise"
      THEN [st EXCEPT !.ev = @ \o r.ev, !.raised = r.value,
                      !.absents = @ + 1]
      ELSE [st EXCEPT !.files = SaveJson(@, aid, ActivityContent(r.value, activity)),
                      !.ev = @ \o r.ev \o << <<"write", "activities", aid>>,
                                             <<"print", "Activity", aid>>,
                                             <<"sleep", API_DELAY>> >>,
                      !.total = @ + 1,
                      !.writes = @ + 1,
                      !.absents = IF r.ok THEN @ ELSE @ + 1]

RECURSIVE BatchLoop(_, _, _, _, _, _)
\* for activity in batch, from position i on; fault = <<position, op>>
BatchLoop(st, list, i, fault, counted, stamp) ==
    IF i > Len(list) \/ st.raised # None THEN st
    ELSE BatchLoop(ActivityStep(st, list[i],
                                IF i = fault[1] THEN fault[2] ELSE AlwaysOk,
                                counted, stamp),
                   list, i + 1, fault, counted, stamp)

\* the behaviours of one remote call within the budget of faults
OpChoices(used) == IF used < MaxFaults THEN {AlwaysOk} \cup FaultyOps ELSE {AlwaysOk}
Used(op) == IF op = AlwaysOk THEN 0 ELSE 1

\* the faults of the detail fetches of a batch: none, or one fetch that is
\* made, for an activity dated in the fault window, while the budget lasts
DetailFaults(list, used) ==
    {<<0, AlwaysOk>>} \cup
    IF used < MaxFaults
    THEN {f \in (1..Len(list)) \X FaultyOps :
            /\ list[f[1]][2] # 0
            /\ ~Exists(activities[list[f[1]][2]])
            /\ Strptime(list[f[1]][3]) >= today - FaultWindow
            /\ \A k \in 1..(f[1] - 1) : list[k][2] # list[f[1]][2]}
    ELSE {}

\* the list request of sync_activities_full and what the remote answers
FullCall == <<"get_activities", offset, PageLimit>>
FullAnswer(list) == GetActivities(list, offset, PageLimit)
\* after a batch of n entries: the loop is left (closing message, sleep of
\* main) or goes on (sleep of the loop)
FullAfter(n) ==
    IF n = 0 \/ LastPage(n)
    THEN [over |-> TRUE,
          ev |-> << <<"print", "activities synced">>, <<"sleep", API_DELAY>> >>]
    ELSE [over |-> FALSE, ev |-> <<<<"sleep", API_DELAY>>>>]

\* the list request of sync_activities_incremental and its answer
RangeCall ==
    <<"get_activities_by_date", IsoFormat(start_date), IsoFormat(today)>>
RangeAnswer(list) ==
    GetActivitiesByDate(list, IsoFormat(start_date), IsoFormat(today))
\* after the n entries: the message if there were none, the sleep of main
RangeAfter(n) ==
    [over |-> TRUE,
     ev |-> IF n = 0
            THEN << <<"print", "No new activities.">>, <<"sleep", API_DELAY>> >>
            ELSE <<<<"sleep", API_DELAY>>>>]

\* One list request and the loop over what it returned, of the full path
\* (cached activities are counted) or of the incremental path.
ActivityBatch(full) ==
    \E list \in RemoteLists(remote) :
    \E lop \in OpChoices(faults) :
    \E r \in {ApiCall(IF full THEN FullCall ELSE RangeCall,
                      IF full THEN FullAnswer(list) ELSE RangeAnswer(list), lop)} :
    \E fault \in IF r.kind = "raise" THEN {<<0, AlwaysOk>>}
                 ELSE DetailFaults(r.value, faults + Used(lop)) :
    /\ remote' = list
    /\ chosen' = <<lop, fault[1], fault[2]>>
    /\ \E res \in {BatchLoop([files |-> activities, ev |-> r.ev, raised |->
                              IF r.kind = "raise" THEN r.value ELSE None,
                              total |-> total, writes |-> 0, absents |-> 0],
                             IF r.kind = "raise" THEN <<>> ELSE r.value,
                             1, fault, full, run)} :
       \E st1 \in {[stats EXCEPT !.listRequests = @ + 1,
                                 !.listFault = @ \/ lop # AlwaysOk,
                                 !.actWrites = @ + res.writes,
                                 !.absents = @ + res.absents + (IF r.ok THEN 0 ELSE 1)]} :
         /\ faults' = faults + Used(lop) + Used(fault[2])
         /\ activities' = res.files
         /\ total' = res.total
         /\ stats' = st1
         /\ IF res.raised # None
            THEN /\ Interrupt(st1)
                 /\ ev' = res.ev
                 /\ offset' = offset
            ELSE LET n == IF r.kind = "raise" THEN 0 ELSE Len(r.value)
                     a == IF full THEN FullAfter(n) ELSE RangeAfter(n) IN
                 /\ ev' = res.ev \o a.ev
                 /\ pc' = IF a.over THEN "bodycomp" ELSE "activities"
                 /\ offset' = IF a.over THEN offset ELSE offset + PageLimit
                 /\ UNCHANGED <<exitCode, exitHow, hist, interrupted>>

\* One iteration of the while True loop of sync_activities_full; when the
\* loop is left, the closing message and the sleep of main.
ActivityPage ==
    /\ pc = "activities"
    /\ ~Incremental
    /\ ActivityBatch(TRUE)
    /\ UNCHANGED <<run, raised, tokens, credTries, clock, mainLocals, daily,
                   docs, sync_state, apiVars>>

\* sync_activities_incremental(api, start_date, today), and the sleep of
\* main after it
ActivityRange ==
    /\ pc = "activities"
    /\ Incremental
    /\ ActivityBatch(FALSE)
    /\ UNCHANGED <<run, raised, tokens, credTries, clock, mainLocals, daily,
                   docs, sync_state, apiVars>>

\* ------------------------------------------------------------------------
\* sync_body_composition, sync_weekly, sync_profile, sync_personal_records
\* ------------------------------------------------------------------------
BodyCompItems ==
    << <<"body_composition/body_comp.json",
         <<"get_body_composition", IsoFormat(start_date), IsoFormat(today)>> >>,
       <<"body_composition/weigh_ins.json",
         <<"get_weigh_ins", IsoFormat(start_date), IsoFormat(today)>> >> >>
WeeklyItems ==
    << <<"weekly/steps.json", <<"get_weekly_steps", IsoFormat(clock), WeeklyWeeks>> >>,
       <<"weekly/stress.json", <<"get_weekly_stress", IsoFormat(clock), WeeklyWeeks>> >> >>
ProfileItems ==
    << <<"profile/user_profile.json", <<"get_user_profile">> >>,
       <<"profile/devices.json", <<"get_devices">> >> >>
RecordItems ==
    << <<"personal_records.json", <<"get_personal_record">> >> >>

RECURSIVE DocLoop(_, _, _, _, _)
\* the fetches of one of these functions from item i on: fetch, store if
\* not None, and sleep between two fetches
DocLoop(st, items, i, env, val) ==
    IF i > Len(items) \/ st.raised # None THEN st
    ELSE
      LET r == ApiCall(items[i][2], val, env[i])
          pause == IF i < Len(items) THEN <<<<"sleep", API_DELAY>>>> ELSE <<>>
          st1 ==
            IF r.kind = "raise"
            THEN [st EXCEPT !.ev = @ \o r.ev, !.raised = r.value]
            ELSE IF ShouldStore(r.value)
            THEN [st EXCEPT !.dir = SaveJson(@, items[i][1], r.value),
                            !.ev = @ \o r.ev
                                     \o <<<<"write", "docs", items[i][1]>>>>
                                     \o pause,
                            !.writes = @ + 1]
            ELSE [st EXCEPT !.ev = @ \o r.ev \o pause, !.absents = @ + 1]
      IN  DocLoop(st1, items, i + 1, env, val)

\* One of the four functions, then what main does after it.
DocPhase(here, items, next, after) ==
    /\ pc = here
    /\ \E j \in IF faults < MaxFaults THEN 0..Len(items) ELSE {0} :
       \E op \in IF j = 0 THEN {AlwaysOk} ELSE FaultyOps :
       /\ chosen' = <<j, op>>
       /\ \E res \in {DocLoop([dir |-> docs, ev |-> <<>>, raised |-> None,
                               writes |-> 0, absents |-> 0],
                              items, 1, Env(Len(items), j, op), RemoteValue)} :
            /\ docs' = res.dir
            /\ faults' = IF j = 0 THEN faults ELSE faults + 1
            /\ IF res.raised # None
               THEN /\ Interrupt(stats)
                    /\ ev' = res.ev
               ELSE /\ pc' = next
                    /\ ev' = res.ev \o after
                    /\ UNCHANGED <<exitCode, exitHow, hist, interrupted>>
    /\ UNCHANGED <<run, raised, tokens, credTries, clock, mainLocals, daily,
                   activities, sync_state, remote, actLocals, stats, apiVars>>

BodyComp == DocPhase("bodycomp", BodyCompItems, "weekly", <<<<"sleep", API_DELAY>>>>)
\* a main that leaves sync_profile out
WeeklyThenRecords ==
    DocPhase("weekly", WeeklyItems, "records", <<<<"sleep", API_DELAY>>>>)

Weekly == DocPhase("weekly", WeeklyItems, "profile", <<<<"sleep", API_DELAY>>>>)
Profile == DocPhase("profile", ProfileItems, "records", <<<<"sleep", API_DELAY>>>>)
Records == DocPhase("records", RecordItems, "persist", <<>>)

\* a main that asks the calendar again when it saves the state
PersistCurrentDate ==
    /\ pc = "persist"
    /\ sync_state' = SaveSyncState(clock)
    /\ ev' = << <<"write", "sync_state.json">>, <<"print", "Sync complete.">> >>
    /\ chosen' = <<>>
    /\ UNCHANGED interrupted
    /\ Finish("complete", stats)
    /\ UNCHANGED <<run, raised, tokens, credTries, clock, mainLocals, daily,
                   activities, docs, remote, actLocals, faults, stats, apiVars>>

\* save_sync_state(today), the closing message, and main returns
Persist ==
    /\ pc = "persist"
    /\ sync_state' = SaveSyncState(today)
    /\ ev' = << <<"write", "sync_state.json">>, <<"print", "Sync complete.">> >>
    /\ chosen' = <<>>
    /\ UNCHANGED interrupted
    /\ Finish("complete", stats)
    /\ UNCHANGED <<run, raised, tokens, credTries, clock, mainLocals, daily,
                   activities, docs, remote, actLocals, faults, stats, apiVars>>

Next ==
    \/ StartRun
    \/ Midnight
    \/ NewActivity
    \/ TokenLogin
    \/ CredLogin
    \/ Mode
    \/ SyncDailyData
    \/ ActivityPage
    \/ ActivityRange
    \/ BodyComp
    \/ Weekly
    \/ Profile
    \/ Records
    \/ Persist

Spec == Init /\ [][Next]_vars

\* ------------------------------------------------------------------------
\* Properties of a run (under Spec)
\* ------------------------------------------------------------------------
SyncPcs == {"daily", "activities", "bodycomp", "weekly", "profile", "records",
            "persist"}

\* where main can be after a step that started at p
Follows(p) ==
    CASE p = "idle"       -> {"token"}
      [] p = "exited"     -> {"token"}
      [] p = "token"      -> {"cred", "mode", "exited"}
      [] p = "cred"       -> {"cred", "mode", "exited"}
      [] p = "mode"       -> {"daily"}
      [] p = "daily"      -> {"activities", "exited"}
      [] p = "activities" -> {"activities", "bodycomp", "exited"}
      [] p = "bodycomp"   -> {"weekly", "exited"}
      [] p = "weekly"     -> {"profile", "exited"}
      [] p = "profile"    -> {"records", "exited"}
      [] p = "records"    -> {"persist", "exited"}
      [] p = "persist"    -> {"exited"}

\* The script is one sequential process: once main is past init_api, each
\* of its steps is taken (every remote call returns or raises, the retries
\* and the sleeps are bounded, the activity list is finite).
SyncStep ==
    \/ SyncDailyData
    \/ ActivityPage
    \/ ActivityRange
    \/ BodyComp
    \/ Weekly
    \/ Profile
    \/ Records
    \/ Persist

\* One run, started with no state file or with the state file of a run
\* of the day before.
InitLive ==
    /\ InitMain
    /\ remote = Unlisted
    /\ apiOp = AlwaysOk
    /\ apiOut = None
    /\ apiDir = EmptyDay

\* an earlier run has left its state file
EarlierRun ==
    /\ pc = "idle"
    /\ sync_state = None
    /\ sync_state' = SaveSyncState(BaseToday - 1)
    /\ UNCHANGED <<pc, run, exitCode, exitHow, raised, interrupted, tokens,
                   credTries, clock, mainLocals, daily, activities, docs,
                   remote, actLocals, faults, ev, chosen, stats, hist, apiVars>>

FirstRun == run = 0 /\ pc = "idle" /\ StartRun

NextLive ==
    \/ EarlierRun
    \/ FirstRun
    \/ Midnight
    \/ TokenLogin
    \/ CredLogin
    \/ Mode
    \/ SyncStep

\* A step of the sync moves main to a later place (pc) or to the next page
\* of the activity list (offset); the steps of NextLive that do so are the
\* steps of SyncStep.
Progress ==
    /\ pc \in SyncPcs
    /\ pc' \in Follows(pc)
    /\ offset' \in {offset, offset + PageLimit}

ProgressIsSyncStep == [][SyncStep <=> <<Progress>>_<<pc, offset>>]_vars

SpecLive == InitLive /\ [][NextLive]_vars /\ WF_<<pc, offset>>(Progress)

\* ------------------------------------------------------------------------
\* The retrying caller on its own: every operation, fetched by one
\* iteration of the loop over the daily metrics into an empty directory
\* ------------------------------------------------------------------------
InitApi ==
    /\ InitMain
    /\ remote = Unlisted
    /\ apiOp \in ApiOps
    /\ apiOut = None
    /\ apiDir = EmptyDay

ApiValue == <<"v", 1>>

\* data = api_call(method, date_str); if data is not None: save_json(..)
ApiFetch ==
    /\ apiOut = None
    /\ \E i \in 1..NDaily :
       \E r \in {ApiCall(DailyCallOf(i, IsoFormat(BaseToday)), ApiValue, apiOp)} :
       \E st \in {DailyFetch([dir |-> apiDir, ev |-> <<>>, raised |-> None,
                               writes |-> 0, absents |-> 0],
                              IsoFormat(BaseToday), i, apiOp, ApiValue)} :
         /\ apiOut' = <<r>>
         /\ apiDir' = st.dir
         /\ ev' = st.ev
    /\ UNCHANGED <<pc, run, exitCode, exitHow, raised, interrupted, tokens,
                   credTries, clock, mainLocals, fsVars, remote, actLocals,
                   faults, chosen, stats, hist, apiOp>>

NextApi == ApiFetch

SpecApi == InitApi /\ [][NextApi]_vars

\* ------------------------------------------------------------------------
\* Properties of api_call (under SpecApi)
\* ------------------------------------------------------------------------
\* the result of the api_call that ApiFetch made
ApiResult == apiOut[1]
\* the operation only ever succeeds or raises one of its error kinds
OnlyErrors == \A i \in 1..MAX_RETRIES : apiOp[i] \in {"ok"} \cup ApiErrors
\* the invocations and the waits of a trace, in their order
CallsAndSleeps(t) == SelectSeq(t, LAMBDA e : e[1] \in {"call", "sleep"})
SleepsOf(t) == [k \in 1..Len(EventsOf(t, "sleep")) |-> EventsOf(t, "sleep")[k][2]]

\* C2: whichever error kinds the wrapped operation raises (rate limit,
\* authentication failure, connection or any other failure), api_call
\* raises nothing to its caller: it returns, and what it returns is the
\* operation's result or the absent value.
C2_NeverPropagates ==
    (apiOut # None /\ OnlyErrors) =>
        /\ ApiResult.kind = "return"
        /\ ApiResult.value \in {ApiValue, None}

\* an operation that fails with an error that is not a rate limit has been
\* called and api_call returned the absent value
C2_Witness ==
    /\ apiOut # None
    /\ apiOp[1] \in OtherErrors
    /\ ApiResult.kind = "return"
    /\ ApiResult.value = None

\* C3: an operation that is rate limited twice and then succeeds is invoked
\* exactly three times, api_call waits RETRY_BACKOFF and then twice
\* RETRY_BACKOFF seconds, each wait between two invocations, and it returns
\* the operation's result.
C3_TwoRateLimitsThenSuccess ==
    (/\ apiOut # None
     /\ apiOp[1] \in RateLimitErrors
     /\ apiOp[2] \in RateLimitErrors
     /\ apiOp[3] = "ok") =>
        /\ ApiResult.kind = "return"
        /\ ApiResult.value = ApiValue
        /\ Len(EventsOf(ApiResult.ev, "call")) = 3
        /\ SleepsOf(ApiResult.ev) = <<RETRY_BACKOFF, 2 * RETRY_BACKOFF>>
        /\ [k \in 1..Len(CallsAndSleeps(ApiResult.ev)) |->
               CallsAndSleeps(ApiResult.ev)[k][1]]
             = <<"call", "sleep", "call", "sleep", "call">>

C3_Witness ==
    /\ apiOut # None
    /\ apiOp = Behaviour("GarminConnectTooManyRequestsError",
                         "GarthHTTPError429", "ok")
    /\ ApiResult.value = ApiValue

\* C4: an operation that is rate limited at every invocation is invoked
\* exactly MAX_RETRIES times; api_call then returns the absent value, and
\* its caller writes no file for that result.
C4_AlwaysRateLimited ==
    (apiOut # None /\ \A i \in 1..MAX_RETRIES : apiOp[i] \in RateLimitErrors) =>
        /\ ApiResult.kind = "return"
        /\ ApiResult.value = None
        /\ Len(EventsOf(ApiResult.ev, "call")) = MAX_RETRIES
        /\ apiDir = EmptyDay
        /\ EventsOf(ev, "write") = <<>>

C4_Witness ==
    /\ apiOut # None
    /\ \A i \in 1..MAX_RETRIES : apiOp[i] = "GarminConnectTooManyRequestsError"
    /\ ApiResult.value = None
    /\ ApiResult.ev[Len(ApiResult.ev)] = <<"print", "Giving up after max retries.">>

DailyMethods == {DailyEntry(i)[2] : i \in 1..NDaily}
\* the file that the fetch of a daily method fills
FileOfMethod(m) == DailyEntry(CHOOSE i \in 1..NDaily : DailyEntry(i)[2] = m)[1]

\* C1: a file daily/<d>/<metric>.json that exists is left as it is: no step
\* calls the remote for that metric and day, and no step writes the file
\* again.  Files under daily/ change in sync_daily_data only, so the files
\* that exist when it starts are those that existed before the run.
C1_CachedDailyNotRefetched ==
    [][/\ \A k \in 1..Len(ev') :
            /\ (ev'[k][1] = "call" /\ ev'[k][2][1] \in DailyMethods) =>
                   ~Exists(daily[ev'[k][2][2]][FileOfMethod(ev'[k][2][1])])
            /\ (ev'[k][1] = "write" /\ ev'[k][2] = "daily") =>
                   ~Exists(daily[ev'[k][3]][ev'[k][4]])
       /\ daily' # daily =>
            /\ pc = "daily"
            /\ \A ds \in DateStrs : \A f \in DailyFiles :
                   Exists(daily[ds][f]) => daily'[ds][f] = daily[ds][f]
      ]_vars

\* sync_daily_data of a second run went over a day that held a file of the
\* first run: it fetched another file of that day and not that one
C1_Witness ==
    /\ pc = "activities"
    /\ run = 2
    /\ stats.listRequests = 0
    /\ \E f \in DailyFiles, g \in DailyFiles :
         /\ daily[IsoFormat(today)][f] = <<"v", 1>>
         /\ daily[IsoFormat(today)][g] = <<"v", 2>>
         /\ \E k \in 1..Len(ev) :
              ev[k] = <<"write", "daily", IsoFormat(today), g>>
         /\ \A k \in 1..Len(ev) :
              ev[k][1] = "call" => ev[k][2][1] # DailyEntry(
                  CHOOSE i \in 1..NDaily : DailyEntry(i)[1] = f)[2]

\* C5: with no state file the run is initial, its start date is today minus
\* HISTORY_DAYS and the activities are listed page by page; with a state
\* file holding X the run is incremental, its start date is X and the
\* activities are listed by the dates X to today.  The daily, the activity
\* and the body composition phase all work on that start date and mode.
C5_ModeSelection ==
    pc \in SyncPcs =>
        /\ today <= clock
        /\ IF sync_state = None
           THEN /\ stats.mode = "initial"
                /\ ~Incremental
                /\ start_date = today - HISTORY_DAYS
           ELSE /\ stats.mode = "incremental"
                /\ Incremental
                /\ IsoFormat(start_date) = sync_state[1]
        /\ (pc = "activities" /\ stats.listRequests = 0) =>
               ev[1] = <<"print", "Syncing daily data", IsoFormat(start_date)>>
        /\ \A k \in 1..Len(ev) :
             ev[k][1] = "call" =>
               LET c == ev[k][2] IN
               /\ c[1] = "get_activities" => sync_state = None
               /\ c[1] = "get_activities_by_date" =>
                      /\ sync_state # None
                      /\ c = <<"get_activities_by_date", sync_state[1],
                               IsoFormat(today)>>
               /\ c[1] \in {"get_body_composition", "get_weigh_ins"} =>
                      /\ c[2] = IsoFormat(start_date)
                      /\ c[3] = IsoFormat(today)
               /\ c[1] \in DailyMethods =>
                      /\ start_date <= Strptime(c[2])
                      /\ Strptime(c[2]) <= today

\* an incremental run listed its activities by date and has gone on to the
\* body composition
C5_Witness ==
    /\ pc = "weekly"
    /\ sync_state # None
    /\ stats.mode = "incremental"
    /\ start_date < today
    /\ ev[1] = <<"call", <<"get_body_composition", sync_state[1],
                           IsoFormat(today)>>>>

\* C6: sync_activities_full lists at the offsets 0, PageLimit, 2 * PageLimit,
\* ..; over a remote list of N activities it never makes more than
\* N \div PageLimit + 1 list requests, and it has made exactly that many when
\* it ends after list requests that all simply returned their batch.
C6_Pagination ==
    (pc \in SyncPcs /\ stats.mode = "initial" /\ remote # Unlisted) =>
        /\ stats.listRequests <= Len(remote) \div PageLimit + 1
        /\ pc = "activities" => offset = PageLimit * stats.listRequests
        /\ (pc \in {"activities", "bodycomp"} /\ stats.listRequests > 0) =>
               ev[1] = <<"call", <<"get_activities",
                                   PageLimit * (stats.listRequests - 1), PageLimit>>>>
        /\ (pc = "bodycomp" /\ ~stats.listFault) =>
               stats.listRequests = Len(remote) \div PageLimit + 1

\* batches of 100, 100 and 37: the full path ended after three requests
C6_Witness ==
    /\ pc = "bodycomp"
    /\ stats.mode = "initial"
    /\ remote # Unlisted
    /\ Len(remote) = 2 * PageLimit + 37
    /\ ~stats.listFault
    /\ stats.listRequests = 3

\* the list request of a step of the activity phase, what the remote
\* answers it, and the batch the loop then goes through
ListCall == IF Incremental THEN RangeCall ELSE FullCall
ListAnswer(list) == IF Incremental THEN RangeAnswer(list) ELSE FullAnswer(list)
BatchOf(list, lop) ==
    LET r == ApiCall(ListCall, ListAnswer(list), lop)
    IN  IF r.kind = "return" THEN r.value ELSE <<>>
\* what the detail fetch for position i of the batch returned
DetailOf(aid, i, fault) ==
    ApiCall(<<"get_activity", aid>>, <<"detail", aid, run>>,
            IF i = fault[2] THEN fault[3] ELSE AlwaysOk).value

\* C7: when a step of the activity phase, full or incremental, has gone
\* through its batch, every activity of the batch that has an id and was
\* not cached before has a file, which holds the detail if the detail
\* fetch returned one and else the summary record of the list.
C7_DetailOrSummary ==
    [][(pc = "activities" /\ pc' # "exited") =>
         LET batch == BatchOf(remote', chosen'[1]) IN
         \A i \in 1..Len(batch) :
            LET aid == batch[i][2] IN
            (/\ aid # 0
             /\ ~Exists(activities[aid])
             /\ \A k \in 1..(i - 1) : batch[k][2] # aid) =>
                /\ Exists(activities'[aid])
                /\ activities'[aid] =
                      IF DetailOf(aid, i, chosen') # None
                      THEN DetailOf(aid, i, chosen')
                      ELSE batch[i]
      ]_vars

\* an incremental run cached the summary of an activity whose detail fetch
\* returned nothing, and the detail of no activity
C7_Witness ==
    /\ pc = "bodycomp"
    /\ Incremental
    /\ chosen[2] # 0
    /\ \E aid \in ActivityIds :
         /\ Exists(activities[aid])
         /\ activities[aid] = <<"activity", aid, IsoFormat(today)>>
         /\ \E k \in 1..Len(ev) : ev[k] = <<"write", "activities", aid>>

C9_ExitCodes ==
    pc = "exited" =>
        /\ exitCode \in {0, 1}
        /\ exitHow = "complete" => exitCode = 0
        /\ interrupted => exitCode = 0
        /\ exitCode = 1 => exitHow \in {"auth_failed", "sys_exit", "uncaught"}

\* the failures of the remote client that a login attempt is expected to
\* meet: authentication, rate limit, connection and other failures
ExpectedLoginFailures ==
    {"GarminConnectAuthenticationError", "GarminConnectTooManyRequestsError",
     "GarminConnectConnectionError"} \cup GarthHTTPErrors

\* C10 as stated: no expected failure of a login attempt, in the stored
\* token step or in the credential step, leaves init_api as an exception.
C10_NeverRaisesToMain ==
    \A e \in ExpectedLoginFailures : raised # <<e>>

\* C11 as stated: whatever goes wrong in the stored-token step, init_api
\* goes on to the credential step (or has its client); no error leaves
\* init_api from that step.  (A KeyboardInterrupt is not counted here.)
C11_TokenStepFallsThrough ==
    [][pc = "token" =>
          \/ pc' \in {"mode", "cred"}
          \/ raised' = <<"KeyboardInterrupt">>
      ]_vars

\* the step resumed a login with an MFA code and resume_login raised
MfaFailed == pc = "cred" /\ chosen' # <<>> /\ chosen'[1] # "ok"
ProcessExits == pc' = "exited" /\ exitHow' = "sys_exit" /\ exitCode' = 1
Reprompts == pc' = "cred" /\ credTries' = credTries + 1

CallsAndWrites(t) == SelectSeq(t, LAMBDA e : e[1] \in {"call", "write"})

\* C13: a run goes through authentication, the daily, activity, body
\* composition, weekly, profile and personal records phases and the saving
\* of the state in this order, and leaves it early only by an interrupt or
\* a failed authentication.  Until authentication has succeeded there is
\* no remote call of a sync phase and no write under BASE_DIR; daily/,
\* activities/ and the documents change in their own phase only;
\* sync_state.json is written by the last step of a completed run only; a
\* failed authentication leaves every file as it was.
C13_PhaseOrder ==
    [][/\ \/ pc' \in Follows(pc)
          \/ pc' = pc /\ UNCHANGED fsVars /\ ev' = <<>>
       /\ (pc \in SyncPcs \ {"persist"} /\ pc' = "exited") =>
              exitHow' = "interrupted"
       /\ pc \in {"idle", "exited", "token", "cred", "mode"} =>
              /\ UNCHANGED fsVars
              /\ CallsAndWrites(ev') = <<>>
       /\ daily' # daily => pc = "daily"
       /\ activities' # activities => pc = "activities"
       /\ docs' # docs => pc \in {"bodycomp", "weekly", "profile", "records"}
       /\ sync_state' # sync_state =>
              /\ pc = "persist"
              /\ exitHow' = "complete"
       /\ (pc \in {"token", "cred"} /\ pc' = "exited") =>
              /\ UNCHANGED <<fsVars, hist>>
              /\ exitHow' # "complete"
      ]_vars

\* a second run went through all phases and saved its state, after a first
\* run that wrote files
C13_Witness ==
    /\ pc = "exited"
    /\ exitHow = "complete"
    /\ Len(hist) = 2
    /\ hist[1].stats.dailyWrites > 0
    /\ hist[2].how = "complete"
    /\ ev = << <<"write", "sync_state.json">>, <<"print", "Sync complete.">> >>

\* C14 (under SpecLive): a run that is past authentication and is not
\* interrupted ends as completed, whatever remote calls returned nothing,
\* and sync_state.json then holds the date that main read when it began.
C14_RunCompletes ==
    (pc \in SyncPcs) ~>
        (/\ pc = "exited"
         /\ \/ interrupted
            \/ /\ exitHow = "complete"
               /\ sync_state = <<IsoFormat(today)>>)

\* a run completed although a fetch returned nothing, and saved the date
\* of its start after the calendar had moved on
C14_Witness ==
    /\ pc = "exited"
    /\ exitHow = "complete"
    /\ ~interrupted
    /\ hist[Len(hist)].stats.absents > 0
    /\ today < clock
    /\ sync_state = <<IsoFormat(today)>>

\* C15: in the events of a step, any two remote calls that follow each
\* other (the list request and the first detail request of the activity
\* phase included) have a sleep between them.
C15_SleepBetweenCalls ==
    \A t \in {CallsAndSleeps(ev)} :
        \A i \in 1..Len(t) - 1 : ~(t[i][1] = "call" /\ t[i + 1][1] = "call")

\* the detail requests and the writes of activity files among the events
\* of a step, in their order, and the activity id of such an event
ActivityEvents(t) ==
    SelectSeq(t, LAMBDA e : \/ e[1] = "write" /\ e[2] = "activities"
                            \/ e[1] = "call" /\ e[2][1] = "get_activity")
AidOf(e) == IF e[1] = "write" THEN e[3] ELSE e[2][2]

\* C16: each activity id has the one file activities[aid] in both paths.
\* On every step: a detail request or a write for an id happens only if
\* the id had no file before the step; within the step the requests for an
\* id are followed by its write, no id is written twice and none is
\* requested again once written; a write leaves a file; files that exist
\* are never changed, and a file changes only by such a write.
C16_ActivityWrittenOnce ==
    [][\A d \in {ActivityEvents(ev')} :
       \A W \in {{k \in 1..Len(d) : d[k][1] = "write"}} :
         /\ pc # "activities" => Len(d) = 0
         /\ \A k \in 1..Len(d) :
              /\ ~Exists(activities[AidOf(d[k])])
              /\ d[k][1] = "write" => Exists(activities'[AidOf(d[k])])
              /\ (d[k][1] = "call" /\ k < Len(d)) => AidOf(d[k + 1]) = AidOf(d[k])
              /\ (d[k][1] = "call" /\ k = Len(d)) =>
                     AidOf(d[k]) \notin {AidOf(d[j]) : j \in W}
         /\ Cardinality({AidOf(d[k]) : k \in W}) = Cardinality(W)
         /\ \A aid \in ActivityIds :
              activities'[aid] # activities[aid] =>
                  /\ ~Exists(activities[aid])
                  /\ aid \in {AidOf(d[k]) : k \in W}]_vars

\* second page of a list of 200 whose first record repeats the last one of
\* the first page: that record is neither requested nor written again
C16_Witness ==
    /\ pc = "activities"
    /\ offset = 2 * PageLimit
    /\ remote # Unlisted
    /\ Len(remote) = 2 * PageLimit
    /\ remote[PageLimit + 1] = remote[PageLimit]
    /\ Exists(activities[remote[PageLimit][2]])
    /\ \A d \in {ActivityEvents(ev)} :
         /\ \E k \in 1..Len(d) : d[k] = <<"write", "activities", remote[PageLimit + 2][2]>>
         /\ \A k \in 1..Len(d) : AidOf(d[k]) # remote[PageLimit][2]

\* the <<file, call>> pairs of the function that main runs at p
ItemsOf(p) ==
    CASE p = "bodycomp" -> BodyCompItems
      [] p = "weekly"   -> WeeklyItems
      [] p = "profile"  -> ProfileItems
      [] p = "records"  -> RecordItems
      [] OTHER          -> <<>>
DocPcs == {"bodycomp", "weekly", "profile", "records"}
\* what api_call did for item i of a step in which item j behaves as op
DocResult(items, i, j, op) == ApiCall(items[i][2], RemoteValue, Env(Len(items), j, op)[i])
\* item i is reached: no fetch before it was interrupted
DocReached(items, i, j, op) ==
    ~(j > 0 /\ j < i /\ DocResult(items, j, j, op).kind = "raise")

\* C17 as stated: after a completed run every one of the seven documents
\* holds what this run fetched.
C17_DocsAlwaysOverwritten ==
    (pc = "exited" /\ exitHow = "complete") =>
        \A name \in DocFiles : docs[name] = RemoteValue

\* C17, amended: every step of the four functions requests each of its
\* documents, whether or not the file exists, and when the request returns
\* a result the file holds that result after the step, whatever it held
\* before.
C17_DocsFetchedAndOverwritten ==
    [][(pc \in DocPcs /\ pc' # pc) =>
        \A items \in {ItemsOf(pc)} :
        \A i \in 1..Len(items) :
            DocReached(items, i, chosen'[1], chosen'[2]) =>
              \A r \in {DocResult(items, i, chosen'[1], chosen'[2])} :
                /\ Len(SelectSeq(ev', LAMBDA e : e = <<"call", items[i][2]>>)) >= 1
                /\ (r.kind = "return" /\ r.value # None) =>
                     /\ docs'[items[i][1]] = r.value
                     /\ \E k \in 1..Len(ev') :
                            ev'[k] = <<"write", "docs", items[i][1]>>
      ]_vars

\* second run: the first weekly document was overwritten with what this
\* run fetched, the second one still holds what the first run stored
C17_Witness ==
    /\ run = 2
    /\ pc = "profile"
    /\ chosen # <<>>
    /\ chosen[1] = 2
    /\ docs["weekly/steps.json"] = <<"v", 2>>
    /\ docs["weekly/stress.json"] = <<"v", 1>>

\* C18 (under SpecApi): when the first invocation raises an error that is
\* not a rate limit, api_call has invoked the operation once, has not
\* waited, has printed a message about the error and returns the absent
\* value.
C18_OtherErrorReported ==
    (apiOut # None /\ apiOp[1] \in OtherErrors) =>
        /\ ApiResult.kind = "return"
        /\ ApiResult.value = None
        /\ Len(EventsOf(ApiResult.ev, "call")) = 1
        /\ Len(EventsOf(ApiResult.ev, "sleep")) = 0
        /\ Len(EventsOf(ApiResult.ev, "print")) >= 1

\* api_call returned the absent value (it did not raise)
Absent(r) == r.kind = "return" /\ r.value = None

\* C19: when the fetch of a daily metric returns the absent value, the
\* step writes no file for that metric and day and the file does not exist
\* after it; when the fetch of one of the seven documents returns the
\* absent value, the step does not write that document and its file is
\* what it was before the step.
C19_AbsentWritesNothing ==
    [][/\ (pc = "daily" /\ chosen'[2] > 0) =>
            \A ds \in {IsoFormat(chosen'[1])} :
            \A name \in {DailyEntry(chosen'[2])[1]} :
              Absent(ApiCall(DailyCallOf(chosen'[2], ds), RemoteValue, chosen'[3])) =>
                /\ ~Exists(daily'[ds][name])
                /\ \A k \in 1..Len(ev') : ev'[k] # <<"write", "daily", ds, name>>
       /\ (pc \in DocPcs /\ pc' # pc /\ chosen'[1] > 0) =>
            \A items \in {ItemsOf(pc)} :
            \A name \in {items[chosen'[1]][1]} :
              Absent(DocResult(items, chosen'[1], chosen'[1], chosen'[2])) =>
                /\ docs'[name] = docs[name]
                /\ \A k \in 1..Len(ev') : ev'[k] # <<"write", "docs", name>>
      ]_vars

\* second run: the request for the body composition document returned
\* nothing and the file still holds what the first run stored
C19_Witness ==
    /\ run = 2
    /\ pc = "weekly"
    /\ chosen # <<>>
    /\ chosen[1] = 1
    /\ Absent(DocResult(BodyCompItems, 1, 1, chosen[2]))
    /\ docs["body_composition/body_comp.json"] = <<"v", 1>>
    /\ docs["body_composition/weigh_ins.json"] = <<"v", 2>>

\* C20: on every step taken with a state file holding X: the daily metrics
\* are requested for dates from X to today only, no file of a date before
\* X changes, the activities are listed by date from X to today and never
\* page by page, and the stored date never goes back.  The last step of a
\* completed run stores the date of that run whatever its fetches
\* returned.  A page request of an initial run that returns nothing ends
\* the paging with no activity file written, and the run goes on.
C20_GapsStayUnfetched ==
    [][/\ sync_state # None =>
            \A X \in {Strptime(sync_state[1])} :
              /\ \A k \in 1..Len(ev') :
                   ev'[k][1] = "call" =>
                     /\ ev'[k][2][1] \in DailyMethods =>
                            /\ X <= Strptime(ev'[k][2][2])
                            /\ Strptime(ev'[k][2][2]) <= today'
                     /\ ev'[k][2][1] # "get_activities"
                     /\ ev'[k][2][1] = "get_activities_by_date" =>
                            ev'[k][2] = <<"get_activities_by_date", sync_state[1],
                                          IsoFormat(today)>>
              /\ \/ daily' = daily
                 \/ \A ds \in DOMAIN daily :
                      Strptime(ds) < X => daily'[ds] = daily[ds]
              /\ sync_state' # None
              /\ X <= Strptime(sync_state'[1])
       /\ pc = "persist" =>
            /\ sync_state' = <<IsoFormat(today)>>
            /\ exitHow' = "complete"
       /\ (pc = "activities" /\ ~Incremental) =>
            \A r \in {ApiCall(FullCall, FullAnswer(remote'), chosen'[1])} :
              (r.kind = "return" /\ ~r.ok) =>
                /\ pc' = "bodycomp"
                /\ activities' = activities
                /\ stats'.listFault
      ]_vars

\* a second, incremental run has completed and a daily file of the day
\* before the first run, which the first run failed to fetch, is still
\* missing
C20_Witness ==
    /\ pc = "exited"
    /\ Len(hist) = 2
    /\ hist[1].how = "complete"
    /\ hist[2].how = "complete"
    /\ hist[2].stats.mode = "incremental"
    /\ hist[1].today = BaseToday
    /\ sync_state # None
    /\ BaseToday <= Strptime(sync_state[1])
    /\ \E f \in DailyFiles : ~Exists(daily[IsoFormat(BaseToday - 1)][f])

============================================================================
